---- MODULE Spec2Model ----
(***************************************************************************)
(* Teacher availability and time accounting of the Teacher-Availability    *)
(* backend (src/backend/server.js): the Teacher, TimeRecord and Query      *)
(* collections, authMiddleware, the PUT /api/teachers/status handler split *)
(* at its await points, the GET /api/teachers and GET /api/teachers/my-time*)
(* handlers, the query routes (create, end, resolve), the socket.io        *)
(* connections and rooms, and the wall clock the handlers read with        *)
(* new Date(); and of its two clients: the roster and query form of the    *)
(* student app (src/student-side/src/App.jsx) and the TeacherDashboard     *)
(* with its live timer (src/unnamed/part_000).                             *)
(*                                                                         *)
(* Time is in milliseconds since the epoch (the value of a JS Date).       *)
(* totalAvailableTime is a JS number of seconds, diff_ms / 1000; the model *)
(* keeps it exactly, as the integer number of 1/MsPerSecond seconds.       *)
(***************************************************************************)
EXTENDS Integers, Sequences, FiniteSets, TLC

\* ------------------------------------------------------------------ bounds
MaxTick == 1      \* instants 0, TickMs, .., MaxTick * TickMs of day 0
MaxCalls == 3        \* status requests accepted over a run with overlapping requests
MaxSerialCalls == 4  \* status requests accepted over a run with serialized requests
MaxSocketCalls == 2  \* status requests accepted over a run with sockets and queries
MaxQueries == 1      \* queries created over a run

\* --------------------------------------------------------------- constants
MsPerSecond == 1000
DayMs == 24 * 60 * 60 * MsPerSecond
TickMs == MsPerSecond \div 2

TeacherIds == {"t1", "t2"}
Slots == {1, 2}

\* socket.io connections, and the client each belongs to: the dashboard of a
\* logged-in teacher (named by the teacher's id), or the student app
SocketIds == {"s1", "s2"}
Client == [s \in SocketIds |-> IF s = "s1" THEN "t1" ELSE "student"]

\* the instants the clock can show: the first ticks of day 0, and the next midnight
Instants == {k * TickMs : k \in 0..MaxTick} \cup {DayMs}

\* date-fns startOfDay: midnight of the calendar day containing the instant
startOfDay(ms) == ms - (ms % DayMs)

\* ------------------------------------------------------------- JS values
Undefined == [kind |-> "undefined", ms |-> 0]
Null == [kind |-> "null", ms |-> 0]
Date(ms) == [kind |-> "date", ms |-> ms]

\* JS truthiness of a lastAvailableTimestamp value: a Date object is truthy
Truthy(v) == v.kind = "date"

NoDoc == [none |-> TRUE]

\* new Teacher({name, email, password: hashedPassword, phone, roomno}):
\* isAvailable takes its schema default, lastAvailableTimestamp has none
NewTeacher(id) ==
    [password |-> "hash", isAvailable |-> FALSE, lastAvailableTimestamp |-> Undefined]

VARIABLES
    now,           \* the wall clock read by new Date()
    teachers,      \* Teacher collection: _id -> document
    timeRecords,   \* TimeRecord collection: documents in insertion order
    req,           \* per slot: the request handler's position and locals
    res,           \* the HTTP response sent by the last step (slot 0: a my-time
                   \* request), NoRes when it sent none
    statusUpdate,  \* the payload of the latest io.emit('statusUpdate', ...)
    calls,         \* status requests accepted
    sessions,      \* history: per teacher, the sessions its calls opened and closed
    sockets,       \* per socket: connected, the rooms joined, the last statusUpdate
                   \* and the last newQuery the server sent it
    queries,       \* Query collection: documents in insertion order
    qreq,          \* the query routes' handler in progress: position and locals
    clients        \* the React state of the student app and of the teacher dashboard

vars == <<now, teachers, timeRecords, req, res, statusUpdate, calls, sessions,
          sockets, queries, qreq, clients>>

\* the x-auth-token header: absent, or a JWT whose payload names a teacher id,
\* signed with JWT_SECRET (as login issues it) or not
NoToken == [present |-> FALSE, signed |-> FALSE, id |-> ""]
SignedToken(id) == [present |-> TRUE, signed |-> TRUE, id |-> id]
ForgedToken(id) == [present |-> TRUE, signed |-> FALSE, id |-> id]
Tokens == {NoToken} \cup {SignedToken(id) : id \in TeacherIds} \cup {ForgedToken(id) : id \in TeacherIds}

\* mutant: the payload is decoded without verifying the signature
jwtDecode(token) == IF token.present THEN [id |-> token.id] ELSE NoDoc

\* jwt.verify(token, JWT_SECRET): the payload, or NoDoc when it throws
jwtVerify(token) == IF token.present /\ token.signed THEN [id |-> token.id] ELSE NoDoc

\* authMiddleware, lines 69-78: the status it answers, or 0 when it calls next()
authMiddleware(token) ==
    IF ~token.present THEN 401
    ELSE IF jwtVerify(token) = NoDoc THEN 400
    ELSE 0

IdleReq ==
    [pc |-> "idle", token |-> NoToken, id |-> "", desired |-> FALSE, doc |-> NoDoc,
     inc |-> 0, today |-> 0, missed |-> FALSE, set |-> <<>>, roster |-> <<>>]

NoRes ==
    [slot |-> 0, caller |-> "", status |-> 0, teacher |-> NoDoc, teachers |-> NoDoc,
     totalAvailableTime |-> 0, message |-> ""]

\* no statusUpdate was emitted yet
NoEmit == [none |-> TRUE]

\* a socket that is not connected, or has just connected: in no room but its own
\* (which no emit of the server addresses), nothing received
NoSocket ==
    [connected |-> FALSE, rooms |-> {}, statusUpdate |-> NoEmit, newQuery |-> NoDoc,
     queryUpdated |-> NoDoc]

IdleQreq == [pc |-> "idle", query |-> NoDoc]

\* StudentDashboard before it is mounted: teachers is useState([]), get the
\* GET /api/teachers request of its mount effect ("none", "sent", "answered")
\* and response the roster travelling back
NoStudent == [mounted |-> FALSE, teachers |-> <<>>, get |-> "none", response |-> <<>>]

\* TeacherDashboard before it is mounted: the useState defaults, timerAt the
\* instant of the last firing (or start) of the one-second interval, fetch the
\* request whose answer is awaited ("none", "initial", "time")
NoDash ==
    [mounted |-> FALSE, isAvailable |-> FALSE, availableTime |-> 0, sessionDuration |-> 0,
     timerAt |-> 0, fetch |-> "none"]

\* the teacher whose dashboard is modelled, and the sockets of the two clients
DashTeacher == "t1"
DashSocket == CHOOSE s \in SocketIds : Client[s] = DashTeacher
StudentSocket == CHOOSE s \in SocketIds : Client[s] = "student"

\* new Query({studentName, queryText, teacher: teacherId}): status and resolution
\* take their schema defaults
NewQuery(n, teacherId) ==
    [id |-> n, teacher |-> teacherId, status |-> "pending", resolution |-> "null"]

\* the values PUT /api/queries/:id/resolve accepts (line 249)
Resolutions == {"satisfied", "not_satisfied"}

\* the index of the Query document with the _id, 0 when there is none
QueryIndex(id) ==
    IF \E i \in 1..Len(queries) : queries[i].id = id
    THEN CHOOSE i \in 1..Len(queries) : queries[i].id = id
    ELSE 0

Response(r, id, status) == [NoRes EXCEPT !.slot = r, !.caller = id, !.status = status]

\* --------------------------------------------------------- store queries
\* mutant: a missing teacher is created with the schema defaults (an upsert)
findByIdOrNew(id) == IF id \in DOMAIN teachers THEN teachers[id] ELSE NewTeacher(id)

\* Teacher.findById(id)
findById(id) == IF id \in DOMAIN teachers THEN teachers[id] ELSE NoDoc

\* mutant: the projection is dropped
selectAll(doc) == doc

\* .select('-password')
selectNoPassword(doc) ==
    [f \in (DOMAIN doc) \ {"password"} |-> doc[f]]

\* Teacher.find().select('-password')
findAllTeachers == [t \in DOMAIN teachers |-> selectNoPassword(teachers[t])]

\* indexes of the TimeRecord documents matching {teacher, date}
Matching(recs, id, date) ==
    {i \in 1..Len(recs) : recs[i].teacher = id /\ recs[i].date = date}

Min(S) == CHOOSE x \in S : \A y \in S : x <= y

\* TimeRecord.findOne({teacher, date}): the first match in natural order
findOneRecord(recs, id, date) ==
    IF Matching(recs, id, date) = {} THEN NoDoc
    ELSE recs[Min(Matching(recs, id, date))]

\* mutant: the update sets the total instead of incrementing it
findOneAndUpdateSet(recs, id, date, d) ==
    IF Matching(recs, id, date) = {}
    THEN Append(recs, [teacher |-> id, date |-> date, totalAvailableTime |-> d])
    ELSE [recs EXCEPT ![Min(Matching(recs, id, date))].totalAvailableTime = d]

\* mutant: the upsert inserts the schema default and increments only an existing record
findOneAndUpdateNoIncOnInsert(recs, id, date, d) ==
    IF Matching(recs, id, date) = {}
    THEN Append(recs, [teacher |-> id, date |-> date, totalAvailableTime |-> 0])
    ELSE [recs EXCEPT ![Min(Matching(recs, id, date))].totalAvailableTime = @ + d]

\* TimeRecord.findOneAndUpdate({teacher, date}, {$inc: {totalAvailableTime: d}},
\* {upsert: true}) on the documents recs its query sees: the increment of a
\* matching document is atomic, a query without a match inserts a document
findOneAndUpdateInc(recs, id, date, d) ==
    IF Matching(recs, id, date) = {}
    THEN Append(recs, [teacher |-> id, date |-> date, totalAvailableTime |-> 0 + d])
    ELSE [recs EXCEPT ![Min(Matching(recs, id, date))].totalAvailableTime = @ + d]

\* mutant: the running session of an available teacher is added to the total
myTimeBodyWithOpenSession(recs, id, date) ==
    (IF findOneRecord(recs, id, date) = NoDoc THEN 0
     ELSE findOneRecord(recs, id, date).totalAvailableTime)
    + (IF id \in DOMAIN teachers /\ teachers[id].isAvailable
             /\ Truthy(teachers[id].lastAvailableTimestamp)
       THEN now - teachers[id].lastAvailableTimestamp.ms ELSE 0)

\* what GET /api/teachers/my-time answers: record ? record.totalAvailableTime : 0
myTimeBody(recs, id, date) ==
    IF findOneRecord(recs, id, date) = NoDoc THEN 0
    ELSE findOneRecord(recs, id, date).totalAvailableTime

\* ------------------------------------------------------------ socket.io
\* io.emit(...) addresses every connected socket, io.to(room).emit(...) the
\* connected sockets that joined the room
AllSockets == "*"

InRoom(room) ==
    {s \in SocketIds : sockets[s].connected /\ (room = AllSockets \/ room \in sockets[s].rooms)}

\* the sockets after the event was sent to the sockets of to
ioEmit(to, event, payload) ==
    [s \in SocketIds |->
        IF s \in to THEN [sockets[s] EXCEPT ![event] = payload] ELSE sockets[s]]

\* ------------------------------------------------- the document and save()
\* lines 171-172 on the loaded document
assignStatus(doc, desired, stamp) ==
    [doc EXCEPT !.isAvailable = desired,
                !.lastAvailableTimestamp = IF desired THEN Date(stamp) ELSE Null]

\* mongoose change tracking: save() sends $set of the paths whose assigned
\* value differs from the loaded one, filtered by _id only
modifiedPaths(loaded, doc) == {f \in DOMAIN doc : doc[f] # loaded[f]}

applySet(doc, set) ==
    [f \in DOMAIN doc |-> IF f \in DOMAIN set THEN set[f] ELSE doc[f]]

\* sessionDuration of line 158, in 1/MsPerSecond seconds
sessionDuration(stamp, last) == stamp - last.ms

\* mutant: the session is charged to the day it started
recordDayOfStart(stamp, last) == startOfDay(last.ms)

\* today of line 159: the day the closed session is charged to
recordDay(stamp, last) == startOfDay(stamp)

\* ---------------------------------------------------------------- history
\* The sessions of a teacher as its calls define them (spec glossary: a session is
\* bounded by a call that sets the status true and a call that sets it false):
\* open is the start of the session in progress, closed the finished sessions,
\* clean is FALSE once a call repeated the status, overlapped another call of the
\* teacher, or failed after it was executed.
NoSessions == [open |-> Null, closed |-> <<>>, clean |-> TRUE]

\* a call with the desired status, executed at instant at
Called(s, desired, at) ==
    IF desired /\ ~Truthy(s.open) THEN [s EXCEPT !.open = Date(at)]
    ELSE IF ~desired /\ Truthy(s.open)
    THEN [s EXCEPT !.open = Null, !.closed = Append(@, [start |-> s.open.ms, end |-> at])]
    ELSE [s EXCEPT !.clean = FALSE]

Unclean(s) == [s EXCEPT !.clean = FALSE]

\* ------------------------------------------------------------------ init
Init ==
    /\ now = 0
    /\ teachers = <<>>
    /\ timeRecords = <<>>
    /\ req = [r \in Slots |-> IdleReq]
    /\ res = NoRes
    /\ statusUpdate = NoEmit
    /\ calls = 0
    /\ sessions = [id \in TeacherIds |-> NoSessions]
    /\ sockets = [s \in SocketIds |-> NoSocket]
    /\ queries = <<>>
    /\ qreq = IdleQreq
    /\ clients = [student |-> NoStudent, dash |-> NoDash]

\* ----------------------------------------------------------------- clock
Tick ==
    /\ \E t \in Instants : t > now /\ now' = t
    /\ res' = NoRes
    /\ UNCHANGED <<clients, sockets, queries, qreq, teachers, timeRecords, req, statusUpdate, calls, sessions>>

ClockSkew ==
    /\ \E t \in Instants : t < now /\ now' = t
    /\ res' = NoRes
    /\ UNCHANGED <<clients, sockets, queries, qreq, teachers, timeRecords, req, statusUpdate, calls, sessions>>

\* ---------------------------------------------------------- registration
Register(id) ==
    /\ id \notin DOMAIN teachers
    /\ teachers' = (id :> NewTeacher(id)) @@ teachers
    /\ res' = NoRes
    /\ UNCHANGED <<clients, sockets, queries, qreq, now, timeRecords, req, statusUpdate, calls, sessions>>

\* ------------------------------------------- PUT /api/teachers/status
FreeSlot(r) == req[r].pc = "idle" /\ \A q \in Slots : q < r => req[q].pc # "idle"

\* some request of teacher id is being handled
InFlight(id) == \E q \in Slots : req[q].pc # "idle" /\ req[q].id = id

\* lines 69-78 and 148-152: a request with the token arrives; authMiddleware
\* answers it, or sets req.teacher and the handler issues findById
PutStatus(r, token, desired) ==
    /\ FreeSlot(r)
    /\ \/ /\ authMiddleware(token) # 0
          /\ res' = [Response(r, "", authMiddleware(token)) EXCEPT
                        !.message = IF authMiddleware(token) = 401
                                    THEN "No token, authorization denied"
                                    ELSE "Token is not valid"]
          /\ UNCHANGED <<clients, calls, req, sessions>>
       \/ /\ authMiddleware(token) = 0
          /\ calls' = calls + 1
          /\ req' = [req EXCEPT ![r] = [IdleReq EXCEPT !.pc = "findById", !.token = token,
                                                      !.id = jwtVerify(token).id,
                                                      !.desired = desired]]
          /\ res' = NoRes
          /\ sessions' = IF InFlight(jwtVerify(token).id)
                         THEN [sessions EXCEPT ![jwtVerify(token).id] = Unclean(@)]
                         ELSE sessions
    /\ UNCHANGED <<clients, sockets, queries, qreq, now, teachers, timeRecords, statusUpdate>>

\* lines 148-152: the request of teacher id, with the token login gave it, passes
\* authMiddleware and issues findById
StartStatus(r, id, desired) == PutStatus(r, SignedToken(id), desired)

\* the catch block, lines 180-183; executed tells whether findById had answered
Respond500(r, executed) ==
    /\ req' = [req EXCEPT ![r] = IdleReq]
    /\ res' = [Response(r, req[r].id, 500) EXCEPT !.message = "Server error updating status."]
    /\ sessions' = IF executed THEN [sessions EXCEPT ![req[r].id] = Unclean(@)] ELSE sessions

\* mutant: the desired status is not looked at
closesSessionAnyDesired(teacher, desired) ==
    teacher.isAvailable /\ Truthy(teacher.lastAvailableTimestamp)

\* lines 156-157: the call closes a session
closesSession(teacher, desired) ==
    teacher.isAvailable /\ ~desired /\ Truthy(teacher.lastAvailableTimestamp)

\* lines 170-173 up to the await: assign the two fields, issue save()
IssueSave(r, loaded) ==
    LET doc == assignStatus(loaded, req[r].desired, now)
        paths == modifiedPaths(loaded, doc)
    IN  req' = [req EXCEPT ![r].pc = "save", ![r].doc = loaded,
                           ![r].set = [f \in paths |-> doc[f]]]

\* lines 152-166: findById answers; the handler runs to its next await
FindById(r) ==
    /\ req[r].pc = "findById"
    /\ LET teacher == findById(req[r].id) IN
       \/ /\ teacher = NoDoc
          /\ req' = [req EXCEPT ![r] = IdleReq]
          /\ res' = [Response(r, req[r].id, 404) EXCEPT !.message = "Teacher not found."]
          /\ UNCHANGED sessions
       \/ /\ teacher # NoDoc
          /\ closesSession(teacher, req[r].desired)
          /\ req' = [req EXCEPT ![r].pc = "inc", ![r].doc = teacher,
                                ![r].inc = sessionDuration(now, teacher.lastAvailableTimestamp),
                                ![r].today = recordDay(now, teacher.lastAvailableTimestamp)]
          /\ res' = NoRes
          /\ sessions' = [sessions EXCEPT ![req[r].id] = Called(@, req[r].desired, now)]
       \/ /\ teacher # NoDoc
          /\ ~closesSession(teacher, req[r].desired)
          /\ IssueSave(r, teacher)
          /\ res' = NoRes
          /\ sessions' = [sessions EXCEPT ![req[r].id] = Called(@, req[r].desired, now)]
    /\ UNCHANGED <<clients, sockets, queries, qreq, now, teachers, timeRecords, statusUpdate, calls>>

FindByIdFails(r) ==
    /\ req[r].pc = "findById"
    /\ Respond500(r, FALSE)
    /\ UNCHANGED <<clients, sockets, queries, qreq, now, teachers, timeRecords, statusUpdate, calls>>

\* lines 162-166 in the store: the query of the upsert finds no document for the
\* key; the collection has no unique index on {teacher, date} (lines 60-64), so
\* the insert that follows does not exclude another insert for the key
UpsertMiss(r) ==
    /\ req[r].pc = "inc"
    /\ ~req[r].missed
    /\ Matching(timeRecords, req[r].id, req[r].today) = {}
    /\ req' = [req EXCEPT ![r].missed = TRUE]
    /\ res' = NoRes
    /\ UNCHANGED <<clients, sockets, queries, qreq, now, teachers, timeRecords, statusUpdate, calls, sessions>>

\* lines 162-173: the upsert-increment is applied (to the matching document, or
\* as the insert of a query that found none); the handler goes on to save()
Accumulate(r) ==
    /\ req[r].pc = "inc"
    /\ req[r].missed \/ Matching(timeRecords, req[r].id, req[r].today) # {}
    /\ timeRecords' =
          IF req[r].missed
          THEN timeRecords \o findOneAndUpdateInc(<<>>, req[r].id, req[r].today, req[r].inc)
          ELSE findOneAndUpdateInc(timeRecords, req[r].id, req[r].today, req[r].inc)
    /\ IssueSave(r, req[r].doc)
    /\ res' = NoRes
    /\ UNCHANGED <<clients, sockets, queries, qreq, now, teachers, statusUpdate, calls, sessions>>

\* mutant: the status is flipped and saved before the ledger is written
AccumulateFailsAfterFlip(r) ==
    /\ req[r].pc = "inc"
    /\ teachers' = [teachers EXCEPT ![req[r].id] = assignStatus(@, req[r].desired, now)]
    /\ Respond500(r, TRUE)
    /\ UNCHANGED <<clients, sockets, queries, qreq, now, timeRecords, statusUpdate, calls>>

\* the increment is rejected: lines 162-166 throw
AccumulateFails(r) ==
    /\ req[r].pc = "inc"
    /\ Respond500(r, TRUE)
    /\ UNCHANGED <<clients, sockets, queries, qreq, now, teachers, timeRecords, statusUpdate, calls>>

\* line 173 completes, line 175 is issued
Save(r) ==
    /\ req[r].pc = "save"
    /\ teachers' = [teachers EXCEPT ![req[r].id] = applySet(@, req[r].set)]
    /\ req' = [req EXCEPT ![r].pc = "find"]
    /\ res' = NoRes
    /\ UNCHANGED <<clients, sockets, queries, qreq, now, timeRecords, statusUpdate, calls, sessions>>

SaveFails(r) ==
    /\ req[r].pc = "save"
    /\ Respond500(r, TRUE)
    /\ UNCHANGED <<clients, sockets, queries, qreq, now, teachers, timeRecords, statusUpdate, calls>>

\* line 175: the roster is read
FindRoster(r) ==
    /\ req[r].pc = "find"
    /\ req' = [req EXCEPT ![r].pc = "emit", ![r].roster = findAllTeachers]
    /\ res' = NoRes
    /\ UNCHANGED <<clients, sockets, queries, qreq, now, teachers, timeRecords, statusUpdate, calls, sessions>>

FindRosterFails(r) ==
    /\ req[r].pc = "find"
    /\ Respond500(r, TRUE)
    /\ UNCHANGED <<clients, sockets, queries, qreq, now, teachers, timeRecords, statusUpdate, calls>>

\* student app, socket.on('statusUpdate', setTeachers): a mounted student app
\* whose socket is connected replaces its list by the payload
onStatusUpdate(c, roster) ==
    IF c.student.mounted /\ sockets[StudentSocket].connected
    THEN [c EXCEPT !.student.teachers = roster]
    ELSE c

\* TeacherDashboard.handleToggle after its PUT was answered 200:
\* setIsAvailable(newStatus), which starts or clears the interval of the timer
\* effect, and for newStatus false the my-time request is sent
onPutResponse(c, id, newStatus) ==
    IF c.dash.mounted /\ id = DashTeacher
    THEN [c EXCEPT !.dash.isAvailable = newStatus,
                   !.dash.timerAt = IF newStatus /\ ~c.dash.isAvailable THEN now ELSE @,
                   !.dash.fetch = IF newStatus THEN @ ELSE "time"]
    ELSE c

\* lines 176-178: broadcast, then answer with the handler's document
EmitAndRespond(r) ==
    /\ req[r].pc = "emit"
    /\ statusUpdate' = [teachers |-> req[r].roster]
    /\ sockets' = ioEmit(InRoom(AllSockets), "statusUpdate", [teachers |-> req[r].roster])
    /\ res' = [Response(r, req[r].id, 200) EXCEPT !.teacher = applySet(req[r].doc, req[r].set)]
    /\ req' = [req EXCEPT ![r] = IdleReq]
    /\ clients' = onPutResponse(onStatusUpdate(clients, req[r].roster), req[r].id, req[r].desired)
    /\ UNCHANGED <<queries, qreq, now, teachers, timeRecords, calls, sessions>>

\* --------------------------------------------- GET /api/teachers/my-time
\* lines 187-191
MyTime(id) ==
    /\ res' = [Response(0, id, 200) EXCEPT
                  !.totalAvailableTime = myTimeBody(timeRecords, id, startOfDay(now))]
    /\ UNCHANGED <<clients, sockets, queries, qreq, now, teachers, timeRecords, req, statusUpdate, calls, sessions>>

\* lines 192-194
MyTimeFails(id) ==
    /\ res' = [Response(0, id, 500) EXCEPT !.message = "Server error fetching time record."]
    /\ UNCHANGED <<clients, sockets, queries, qreq, now, teachers, timeRecords, req, statusUpdate, calls, sessions>>

\* ------------------------------------------------------ GET /api/teachers
\* lines 139-142: no authentication; the roster without passwords
GetTeachers ==
    /\ res' = [Response(0, "", 200) EXCEPT !.teachers = findAllTeachers]
    /\ UNCHANGED <<clients, sockets, queries, qreq, now, teachers, timeRecords, req, statusUpdate, calls, sessions>>

\* lines 143-145
GetTeachersFails ==
    /\ res' = [Response(0, "", 500) EXCEPT !.message = "Server error fetching teachers."]
    /\ UNCHANGED <<clients, sockets, queries, qreq, now, teachers, timeRecords, req, statusUpdate, calls, sessions>>

\* ------------------------------------------------------------- socket.io
\* line 329: a client connects; the connection handler registers the socket's
\* listeners and sends the socket nothing
Connect(s) ==
    /\ ~sockets[s].connected
    /\ sockets' = [sockets EXCEPT ![s] = [NoSocket EXCEPT !.connected = TRUE]]
    /\ res' = NoRes
    /\ UNCHANGED <<clients, now, teachers, timeRecords, req, statusUpdate, calls, sessions, queries, qreq>>

\* lines 334-337: the socket sends joinRoom with any id; socket.join(teacherId)
JoinRoom(s, teacherId) ==
    /\ sockets[s].connected
    /\ teacherId \notin sockets[s].rooms
    /\ sockets' = [sockets EXCEPT ![s].rooms = @ \cup {teacherId}]
    /\ res' = NoRes
    /\ UNCHANGED <<clients, now, teachers, timeRecords, req, statusUpdate, calls, sessions, queries, qreq>>

\* mutant: the teacher whose dashboard disconnects is marked unavailable
DisconnectMarksUnavailable(s) ==
    /\ sockets[s].connected
    /\ sockets' = [sockets EXCEPT ![s] = NoSocket]
    /\ res' = NoRes
    /\ teachers' = [t \in DOMAIN teachers |->
                        IF t = Client[s] THEN assignStatus(teachers[t], FALSE, now) ELSE teachers[t]]
    /\ UNCHANGED <<clients, now, timeRecords, req, statusUpdate, calls, sessions, queries, qreq>>

\* lines 339-341: the connection ends; socket.io drops the socket and its rooms
Disconnect(s) ==
    /\ sockets[s].connected
    /\ sockets' = [sockets EXCEPT ![s] = NoSocket]
    /\ res' = NoRes
    /\ UNCHANGED <<clients, now, teachers, timeRecords, req, statusUpdate, calls, sessions, queries, qreq>>

\* ------------------------------------------------------ POST /api/queries
\* lines 201-206: the body has all its fields; the new Query is saved
CreateQuery(teacherId) ==
    /\ qreq.pc = "idle"
    /\ Len(queries) < MaxQueries
    /\ queries' = Append(queries, NewQuery(Len(queries) + 1, teacherId))
    /\ qreq' = [pc |-> "saved", query |-> NewQuery(Len(queries) + 1, teacherId)]
    /\ res' = NoRes
    /\ UNCHANGED <<clients, now, teachers, timeRecords, req, statusUpdate, calls, sessions, sockets>>

\* lines 209-211: the teacher's room is notified, the student is answered
NotifyTeacher ==
    /\ qreq.pc = "saved"
    /\ sockets' = ioEmit(InRoom(qreq.query.teacher), "newQuery", qreq.query)
    /\ res' = Response(0, "student", 201)
    /\ qreq' = IdleQreq
    /\ UNCHANGED <<clients, now, teachers, timeRecords, req, statusUpdate, calls, sessions, queries>>

\* ------------------------------------------- PUT /api/queries/:id/end
\* lines 228-235: Query.findOneAndUpdate({_id, teacher: req.teacher.id},
\* {status: 'ended'}) for the authenticated teacher
EndQuery(id, teacherId) ==
    /\ qreq.pc = "idle"
    /\ LET i == QueryIndex(id) IN
       \/ /\ i = 0 \/ (i # 0 /\ queries[i].teacher # teacherId)
          /\ res' = [Response(0, teacherId, 404) EXCEPT !.message = "Query not found or unauthorized."]
          /\ UNCHANGED <<clients, queries, qreq>>
       \/ /\ i # 0 /\ queries[i].teacher = teacherId
          /\ queries' = [queries EXCEPT ![i].status = "ended"]
          /\ qreq' = [pc |-> "updated", query |-> [queries[i] EXCEPT !.status = "ended"]]
          /\ res' = NoRes
    /\ UNCHANGED <<clients, now, teachers, timeRecords, req, statusUpdate, calls, sessions, sockets>>

\* ---------------------------------------- PUT /api/queries/:id/resolve
\* lines 246-253: no authentication; Query.findByIdAndUpdate(id, {resolution})
ResolveQuery(id, resolution) ==
    /\ qreq.pc = "idle"
    /\ LET i == QueryIndex(id) IN
       \/ /\ resolution \notin Resolutions
          /\ res' = [Response(0, "student", 400) EXCEPT !.message = "Invalid resolution value."]
          /\ UNCHANGED <<clients, queries, qreq>>
       \/ /\ resolution \in Resolutions
          /\ i = 0
          /\ res' = [Response(0, "student", 404) EXCEPT !.message = "Query not found."]
          /\ UNCHANGED <<clients, queries, qreq>>
       \/ /\ resolution \in Resolutions
          /\ i # 0
          /\ queries' = [queries EXCEPT ![i].resolution = resolution]
          /\ qreq' = [pc |-> "updated", query |-> [queries[i] EXCEPT !.resolution = resolution]]
          /\ res' = NoRes
    /\ UNCHANGED <<clients, now, teachers, timeRecords, req, statusUpdate, calls, sessions, sockets>>

\* lines 238-239 and 255-256: every socket is told, the caller is answered
EmitQueryUpdated ==
    /\ qreq.pc = "updated"
    /\ sockets' = ioEmit(InRoom(AllSockets), "queryUpdated", qreq.query)
    /\ res' = Response(0, "", 200)
    /\ qreq' = IdleQreq
    /\ UNCHANGED <<clients, now, teachers, timeRecords, req, statusUpdate, calls, sessions, queries>>

\* ------------------------------------------------------- student app
\* StudentDashboard roster effect (src/student-side/src/App.jsx 177-193): the
\* GET /api/teachers request is sent and the statusUpdate listener registered
\* on the socket the module opened when it was loaded
StudentMount ==
    /\ ~clients.student.mounted
    /\ sockets[StudentSocket].connected
    /\ clients' = [clients EXCEPT !.student = [NoStudent EXCEPT !.mounted = TRUE, !.get = "sent"]]
    /\ res' = NoRes
    /\ UNCHANGED <<now, teachers, timeRecords, req, statusUpdate, calls, sessions, sockets, queries, qreq>>

\* GET /api/teachers (lines 139-142) serves the student's request; the response
\* travels back
StudentGetServed ==
    /\ clients.student.get = "sent"
    /\ clients' = [clients EXCEPT !.student.get = "answered", !.student.response = findAllTeachers]
    /\ res' = [Response(0, "student", 200) EXCEPT !.teachers = findAllTeachers]
    /\ UNCHANGED <<now, teachers, timeRecords, req, statusUpdate, calls, sessions, sockets, queries, qreq>>

\* the response arrives: setTeachers(response.data)
StudentGetDelivered ==
    /\ clients.student.get = "answered"
    /\ clients' = [clients EXCEPT !.student.get = "none", !.student.response = <<>>,
                                  !.student.teachers = clients.student.response]
    /\ res' = NoRes
    /\ UNCHANGED <<now, teachers, timeRecords, req, statusUpdate, calls, sessions, sockets, queries, qreq>>

\* QueryForm.handleSubmit (src/student-side/src/App.jsx 277-311): the student
\* picks one of the teachers its list shows as available and posts the query
StudentSubmit(teacherId) ==
    /\ clients.student.mounted
    /\ teacherId \in DOMAIN clients.student.teachers
    /\ clients.student.teachers[teacherId].isAvailable
    /\ CreateQuery(teacherId)

\* -------------------------------------------------- teacher dashboard
\* TeacherDashboard mount effect (src/unnamed/part_000 506-548) of a teacher
\* who logged in: joinRoom is emitted on the connected socket, the initial
\* requests are sent
DashMount ==
    /\ ~clients.dash.mounted
    /\ DashTeacher \in DOMAIN teachers
    /\ sockets[DashSocket].connected
    /\ clients' = [clients EXCEPT !.dash = [NoDash EXCEPT !.mounted = TRUE, !.fetch = "initial"]]
    /\ sockets' = [sockets EXCEPT ![DashSocket].rooms = @ \cup {DashTeacher}]
    /\ res' = NoRes
    /\ UNCHANGED <<now, teachers, timeRecords, req, statusUpdate, calls, sessions, queries, qreq>>

\* fetchInitialData: GET /api/teachers and GET /api/teachers/my-time are
\* answered; setIsAvailable(currentTeacher.isAvailable), which starts the
\* interval of the timer effect when true, and setAvailableTime
DashLoaded ==
    /\ clients.dash.fetch = "initial"
    /\ LET currentTeacher == findById(DashTeacher) IN
       clients' = [clients EXCEPT
           !.dash.fetch = "none",
           !.dash.isAvailable = IF currentTeacher = NoDoc THEN @ ELSE currentTeacher.isAvailable,
           !.dash.timerAt = now,
           !.dash.availableTime = myTimeBody(timeRecords, DashTeacher, startOfDay(now))]
    /\ res' = NoRes
    /\ UNCHANGED <<now, teachers, timeRecords, req, statusUpdate, calls, sessions, sockets, queries, qreq>>

\* handleToggle (578-597): PUT /api/teachers/status with !isAvailable
DashToggle(r) ==
    /\ clients.dash.mounted
    /\ clients.dash.fetch = "none"
    /\ ~InFlight(DashTeacher)
    /\ StartStatus(r, DashTeacher, ~clients.dash.isAvailable)

\* handleToggle after the status became unavailable: the my-time request is
\* answered; setAvailableTime, setSessionDuration(0)
DashRefetched ==
    /\ clients.dash.fetch = "time"
    /\ clients' = [clients EXCEPT
           !.dash.fetch = "none",
           !.dash.availableTime = myTimeBody(timeRecords, DashTeacher, startOfDay(now)),
           !.dash.sessionDuration = 0]
    /\ res' = NoRes
    /\ UNCHANGED <<now, teachers, timeRecords, req, statusUpdate, calls, sessions, sockets, queries, qreq>>

\* the page is closed or reloaded between two requests: the state is lost
DashUnmount ==
    /\ clients.dash.mounted
    /\ clients.dash.fetch = "none"
    /\ ~InFlight(DashTeacher)
    /\ clients' = [clients EXCEPT !.dash = NoDash]
    /\ res' = NoRes
    /\ UNCHANGED <<now, teachers, timeRecords, req, statusUpdate, calls, sessions, sockets, queries, qreq>>

\* the instants the clock shows while a dashboard is watched: Instants and an
\* instant of day 0 some seconds later
DashInstants == Instants \cup {(MaxTick + 1) * MsPerSecond + TickMs}

\* time passes; the interval of the timer effect (550-558) fires once per full
\* second since it last fired while isAvailable: setSessionDuration(prev + 1)
DashTick ==
    /\ \E t \in DashInstants : t > now /\ now' = t
    /\ LET fired == IF clients.dash.mounted /\ clients.dash.isAvailable
                    THEN (now' - clients.dash.timerAt) \div MsPerSecond ELSE 0
       IN  clients' = [clients EXCEPT !.dash.sessionDuration = @ + fired * MsPerSecond,
                                     !.dash.timerAt = @ + fired * MsPerSecond]
    /\ res' = NoRes
    /\ UNCHANGED <<teachers, timeRecords, req, statusUpdate, calls, sessions, sockets, queries, qreq>>

\* ------------------------------------------------------------------ next
Fails(r) ==
    \/ FindByIdFails(r)
    \/ AccumulateFails(r)
    \/ SaveFails(r)
    \/ FindRosterFails(r)

Handles(r) ==
    \/ FindById(r)
    \/ UpsertMiss(r)
    \/ Accumulate(r)
    \/ Save(r)
    \/ FindRoster(r)
    \/ EmitAndRespond(r)

\* requests of all teachers overlap freely
Next ==
    \/ Tick
    \/ \E id \in TeacherIds : Register(id)
    \/ calls < MaxCalls /\ \E r \in Slots, id \in TeacherIds, desired \in BOOLEAN : StartStatus(r, id, desired)
    \/ \E r \in Slots : Handles(r)

Spec == Init /\ [][Next]_vars

\* each teacher's requests are serialized (the next is sent after the previous was
\* answered); requests of different teachers overlap
NextSerial ==
    \/ Tick
    \/ \E id \in TeacherIds : Register(id)
    \/ calls < MaxSerialCalls /\ \E r \in Slots, id \in TeacherIds, desired \in BOOLEAN :
            ~InFlight(id) /\ StartStatus(r, id, desired)
    \/ \E r \in Slots : Handles(r)

SpecSerial == Init /\ [][NextSerial]_vars

\* as NextSerial, with the my-time read between a teacher's status requests and
\* roster reads at any time
NextRead ==
    \/ Tick
    \/ \E id \in TeacherIds : Register(id)
    \/ calls < MaxCalls /\ \E r \in Slots, id \in TeacherIds, desired \in BOOLEAN :
            ~InFlight(id) /\ StartStatus(r, id, desired)
    \/ \E id \in TeacherIds : ~InFlight(id) /\ MyTime(id)
    \/ \E id \in TeacherIds : ~InFlight(id) /\ MyTimeFails(id)
    \/ GetTeachers
    \/ GetTeachersFails
    \/ \E r \in Slots : Handles(r)

SpecRead == Init /\ [][NextRead]_vars

\* as NextSerial, and storage operations may fail
NextFaults ==
    \/ Tick
    \/ \E id \in TeacherIds : Register(id)
    \/ calls < MaxCalls /\ \E r \in Slots, id \in TeacherIds, desired \in BOOLEAN :
            ~InFlight(id) /\ StartStatus(r, id, desired)
    \/ \E r \in Slots : Handles(r)
    \/ \E r \in Slots : Fails(r)

SpecFaults == Init /\ [][NextFaults]_vars

\* as NextSerial, and the wall clock may be set back
NextSkew ==
    \/ Tick
    \/ ClockSkew
    \/ \E id \in TeacherIds : Register(id)
    \/ calls < MaxCalls /\ \E r \in Slots, id \in TeacherIds, desired \in BOOLEAN :
            ~InFlight(id) /\ StartStatus(r, id, desired)
    \/ \E r \in Slots : Handles(r)

SpecSkew == Init /\ [][NextSkew]_vars

\* as NextSerial, and status requests arrive with any token
NextAuth ==
    \/ Tick
    \/ \E id \in TeacherIds : Register(id)
    \/ calls < MaxCalls /\ \E r \in Slots, token \in Tokens, desired \in BOOLEAN :
            ~InFlight(token.id) /\ PutStatus(r, token, desired)
    \/ \E r \in Slots : Handles(r)

SpecAuth == Init /\ [][NextAuth]_vars

\* overlapping status requests that may fail, broadcast to sockets that connect
\* and disconnect
NextBroadcast ==
    \/ \E id \in TeacherIds : Register(id)
    \/ calls < MaxSocketCalls /\ \E r \in Slots, id \in TeacherIds, desired \in BOOLEAN : StartStatus(r, id, desired)
    \/ \E r \in Slots : Handles(r)
    \/ \E r \in Slots : Fails(r)
    \/ \E s \in SocketIds : Connect(s)
    \/ \E s \in SocketIds : Disconnect(s)

SpecBroadcast == Init /\ [][NextBroadcast]_vars

\* students create queries while sockets connect, join rooms and disconnect
NextRooms ==
    \/ \E id \in TeacherIds : Register(id)
    \/ \E s \in SocketIds : Connect(s)
    \/ \E s \in SocketIds, id \in TeacherIds : JoinRoom(s, id)
    \/ \E s \in SocketIds : Disconnect(s)
    \/ \E id \in TeacherIds : CreateQuery(id)
    \/ NotifyTeacher

SpecRooms == Init /\ [][NextRooms]_vars

\* queries are created, ended by teachers and resolved by students
NextQueries ==
    \/ \E id \in TeacherIds : Register(id)
    \/ \E s \in SocketIds : Connect(s)
    \/ \E s \in SocketIds : Disconnect(s)
    \/ \E id \in TeacherIds : CreateQuery(id)
    \/ NotifyTeacher
    \/ \E id \in 1..MaxQueries, teacherId \in TeacherIds : EndQuery(id, teacherId)
    \/ \E id \in 1..MaxQueries, resolution \in Resolutions \cup {"maybe"} : ResolveQuery(id, resolution)
    \/ EmitQueryUpdated

SpecQueries == Init /\ [][NextQueries]_vars

\* teachers register; then the student app is opened, follows the roster and
\* posts queries while status requests, one at a time, change the roster
NextStudent ==
    \/ ~clients.student.mounted /\ \E id \in TeacherIds : Register(id)
    \/ calls < MaxSocketCalls /\ \E id \in TeacherIds, desired \in BOOLEAN :
            StartStatus(1, id, desired)
    \/ Handles(1)
    \/ Connect(StudentSocket)
    \/ StudentMount
    \/ StudentGetServed
    \/ StudentGetDelivered
    \/ \E id \in TeacherIds : StudentSubmit(id)
    \/ NotifyTeacher

SpecStudent == Init /\ [][NextStudent]_vars

\* the teacher dashboard is opened, toggles the status, shows the live total,
\* is closed and reopened, while its socket disconnects and reconnects and
\* students post queries for the teacher; requests are answered in less time
\* than the clock resolves, so time passes between them
NextDashboard ==
    \/ ~InFlight(DashTeacher) /\ clients.dash.fetch = "none" /\ DashTick
    \/ Register(DashTeacher)
    \/ Connect(DashSocket)
    \/ Disconnect(DashSocket)
    \/ DashMount
    \/ DashLoaded
    \/ calls < MaxCalls /\ DashToggle(1)
    \/ Handles(1)
    \/ DashRefetched
    \/ DashUnmount
    \/ CreateQuery(DashTeacher)
    \/ NotifyTeacher

SpecDashboard == Init /\ [][NextDashboard]_vars

\* every operation of the server next to status requests of both teachers: the
\* reads, the query routes and the events of the dashboard's socket; a request
\* arrives when the one before it was answered
NextFrame ==
    \/ \E id \in TeacherIds : Register(id)
    \/ calls < MaxSocketCalls /\ qreq.pc = "idle" /\ \E id \in TeacherIds, desired \in BOOLEAN :
            StartStatus(1, id, desired)
    \/ Handles(1)
    \/ qreq.pc = "idle" /\ \E id \in TeacherIds : ~InFlight(id) /\ MyTime(id)
    \/ qreq.pc = "idle" /\ GetTeachers
    \/ Connect(DashSocket)
    \/ JoinRoom(DashSocket, DashTeacher)
    \/ Disconnect(DashSocket)
    \/ req[1].pc = "idle" /\ CreateQuery(DashTeacher)
    \/ NotifyTeacher
    \/ req[1].pc = "idle" /\ \E id \in 1..MaxQueries, teacherId \in TeacherIds : EndQuery(id, teacherId)
    \/ req[1].pc = "idle" /\ \E id \in 1..MaxQueries : ResolveQuery(id, "satisfied")
    \/ EmitQueryUpdated

SpecFrame == Init /\ [][NextFrame]_vars

\* ================================================================ claims
Days == {startOfDay(i) : i \in Instants}

RECURSIVE SumDur(_)
SumDur(closed) ==
    IF closed = <<>> THEN 0
    ELSE (closed[Len(closed)].end - closed[Len(closed)].start) + SumDur(SubSeq(closed, 1, Len(closed) - 1))

\* every start and end of the teacher's sessions lies in calendar day d
AllWithin(s, d) ==
    /\ \A i \in 1..Len(s.closed) : startOfDay(s.closed[i].start) = d /\ startOfDay(s.closed[i].end) = d
    /\ Truthy(s.open) => startOfDay(s.open.ms) = d

\* two lastAvailableTimestamp values denote the same optional instant
SameTimestamp(a, b) == (Truthy(a) <=> Truthy(b)) /\ (Truthy(a) => a.ms = b.ms)

Max0(x) == IF x < 0 THEN 0 ELSE x

\* the step is handler r passing from one await to the next
Passes(r, from, to) == req[r].pc = from /\ req'[r].pc = to

\* C1: in every persisted Teacher, lastAvailableTimestamp is set if and only if
\* isAvailable is true, also when requests of one teacher overlap.
C1_TimestampIffAvailable ==
    \A id \in DOMAIN teachers :
        teachers[id].isAvailable <=> Truthy(teachers[id].lastAvailableTimestamp)

\* C2: after every call of a teacher whose calls were serialized, alternating and
\* all within one calendar day d, the teacher's total for d is the sum of
\* end - start over its closed sessions, whatever other teachers did meanwhile.
C2_TotalIsSumOfClosedSessions ==
    \A id \in TeacherIds, d \in Days :
        (sessions[id].clean /\ ~InFlight(id) /\ AllWithin(sessions[id], d))
            => myTimeBody(timeRecords, id, d) = SumDur(sessions[id].closed)

C2_Witness ==
    \E id \in TeacherIds :
        /\ sessions[id].clean /\ ~InFlight(id) /\ AllWithin(sessions[id], 0)
        /\ Len(sessions[id].closed) = 2
        /\ SumDur(sessions[id].closed) > 0
        /\ myTimeBody(timeRecords, id, 0) > 0
        /\ DOMAIN teachers = TeacherIds

\* C3: the TimeRecord collection changes only in the accumulate step of a call
\* that asks for unavailable while the teacher's persisted status is available;
\* a call that finds the teacher unavailable, and a repeated call for available,
\* leave every TimeRecord unchanged.
C3_LedgerOnlyOnDownEdge ==
    [][timeRecords' # timeRecords =>
        \E r \in Slots : /\ Passes(r, "inc", "save")
                         /\ teachers[req[r].id].isAvailable
                         /\ ~req[r].desired]_vars

C3_Witness ==
    /\ res.status = 200 /\ res.slot # 0
    /\ ~sessions[res.caller].clean
    /\ Len(sessions[res.caller].closed) = 1
    /\ ~Truthy(sessions[res.caller].open)
    /\ myTimeBody(timeRecords, res.caller, 0) = TickMs

\* C4: a call whose desired status equals the teacher's persisted status leaves
\* lastAvailableTimestamp as it was.
C4_RepeatKeepsTimestamp ==
    [][\A r \in Slots :
        (Passes(r, "save", "find") /\ teachers[req[r].id].isAvailable = req[r].desired)
            => SameTimestamp(teachers'[req[r].id].lastAvailableTimestamp,
                             teachers[req[r].id].lastAvailableTimestamp)]_vars

\* the teacher's closed sessions that ended in calendar day d
EndedIn(s, d) == {i \in 1..Len(s.closed) : startOfDay(s.closed[i].end) = d}

\* C5: when the only session of a teacher that ended today was opened today at s
\* and closed at s + D, by alternating serialized calls, the my-time read
\* answers exactly D.
C5_ReadAfterOneSession ==
    \A id \in TeacherIds :
        (/\ res.slot = 0 /\ res.status = 200 /\ res.caller = id
         /\ sessions[id].clean
         /\ Cardinality(EndedIn(sessions[id], startOfDay(now))) = 1)
        => \A i \in EndedIn(sessions[id], startOfDay(now)) :
              startOfDay(sessions[id].closed[i].start) = startOfDay(now)
                  => res.totalAvailableTime = sessions[id].closed[i].end - sessions[id].closed[i].start

C5_Witness ==
    \E id \in TeacherIds :
        /\ res.slot = 0 /\ res.status = 200 /\ res.caller = id
        /\ sessions[id].clean
        /\ sessions[id].closed = <<[start |-> 0, end |-> TickMs]>>
        /\ startOfDay(now) = 0
        /\ res.totalAvailableTime = TickMs

\* the total of every (teacher, day)
Ledger(recs) == [k \in TeacherIds \X Days |-> myTimeBody(recs, k[1], k[2])]

\* C6: the accumulate step of a call made at instant e for a teacher whose
\* persisted lastAvailableTimestamp is s adds e - s to the record of (teacher,
\* day of e) and changes no other record, also when s is on an earlier day; the
\* save of that call leaves the teacher unavailable without a timestamp.
C6_CloseChargesDayOfNow ==
    [][\A r \in Slots :
        /\ Passes(r, "inc", "save") =>
              LET id == req[r].id
                  s == teachers[id].lastAvailableTimestamp.ms
                  e == sessions[id].closed[Len(sessions[id].closed)].end
              IN  /\ Ledger(timeRecords') =
                        [Ledger(timeRecords) EXCEPT ![<<id, startOfDay(e)>>] = @ + (e - s)]
                  /\ Len(timeRecords') \in {Len(timeRecords), Len(timeRecords) + 1}
                  /\ \A i \in 1..Len(timeRecords') : timeRecords'[i].date \in Days
        /\ (Passes(r, "save", "find") /\ teachers[req[r].id].isAvailable /\ ~req[r].desired) =>
              /\ ~teachers'[req[r].id].isAvailable
              /\ ~Truthy(teachers'[req[r].id].lastAvailableTimestamp)]_vars

C6_Witness ==
    \E id \in TeacherIds :
        /\ res.status = 200 /\ res.slot # 0 /\ res.caller = id
        /\ sessions[id].closed = <<[start |-> TickMs, end |-> DayMs]>>
        /\ myTimeBody(timeRecords, id, DayMs) = DayMs - TickMs
        /\ myTimeBody(timeRecords, id, 0) = 0
        /\ ~teachers[id].isAvailable
        /\ teachers[id].lastAvailableTimestamp = Null

\* C7: the amount the accumulate step adds is max(0, now - lastAvailableTimestamp).
C7_IncrementClamped ==
    [][\A r \in Slots :
        (Passes(r, "inc", "save") /\ sessions[req[r].id].clean) =>
            LET id == req[r].id
                s == teachers[id].lastAvailableTimestamp.ms
                e == sessions[id].closed[Len(sessions[id].closed)].end
            IN  myTimeBody(timeRecords', id, startOfDay(e))
                    - myTimeBody(timeRecords, id, startOfDay(e)) = Max0(e - s)]_vars

\* C8: when the ledger increment of a call fails, the call answers 500, the
\* Teacher collection is not written (the teacher is still available with a
\* timestamp), the ledger is unchanged and nothing is broadcast.
C8_LedgerFailureAborts ==
    [][\A r \in Slots :
        Passes(r, "inc", "idle") =>
            /\ res'.status = 500 /\ res'.slot = r /\ res'.caller = req[r].id
            /\ teachers' = teachers
            /\ teachers'[req[r].id].isAvailable
            /\ teachers'[req[r].id].lastAvailableTimestamp = req[r].doc.lastAvailableTimestamp
            /\ timeRecords' = timeRecords
            /\ statusUpdate' = statusUpdate]_vars

C8_Witness ==
    /\ res.status = 500 /\ res.slot # 0
    /\ res.caller \in DOMAIN teachers
    /\ teachers[res.caller].isAvailable
    /\ teachers[res.caller].lastAvailableTimestamp = Date(0)
    /\ sessions[res.caller].closed = <<[start |-> 0, end |-> TickMs]>>
    /\ timeRecords = <<>>
    /\ statusUpdate # NoEmit

\* C9: no handler ends leaving a partial commit, whichever single storage step
\* of the call fails (the teacher's earlier calls all succeeded): not with its
\* increment applied and the teacher still available with the same timestamp,
\* and not with the status flipped to unavailable without an increment.
C9_NoPartialCommit ==
    [][\A r \in Slots :
        /\ (req[r].pc \in {"save", "find", "emit"} /\ req'[r].pc = "idle"
                /\ sessions[req[r].id].clean
                /\ closesSession(req[r].doc, req[r].desired)) =>
              ~(/\ teachers'[req[r].id].isAvailable
                /\ teachers'[req[r].id].lastAvailableTimestamp = req[r].doc.lastAvailableTimestamp)
        /\ (Passes(r, "save", "find") /\ teachers[req[r].id].isAvailable
                /\ ~teachers'[req[r].id].isAvailable) =>
              closesSession(req[r].doc, req[r].desired)]_vars

\* C10: two overlapping calls for unavailable that both read the teacher as
\* available with the same timestamp do not both add the session's duration to
\* the ledger (a duration of 0 adds nothing).
C10_OverlapCountsOnce ==
    ~\E r1 \in Slots, r2 \in Slots :
        /\ r1 # r2
        /\ req[r1].id = req[r2].id
        /\ req[r1].pc \in {"save", "find", "emit"}
        /\ req[r2].pc \in {"save", "find", "emit"}
        /\ closesSession(req[r1].doc, req[r1].desired)
        /\ closesSession(req[r2].doc, req[r2].desired)
        /\ req[r1].doc.lastAvailableTimestamp = req[r2].doc.lastAvailableTimestamp
        /\ req[r1].inc # 0 /\ req[r2].inc # 0

\* C11: every accumulate operation adds its delta to the total of its (teacher,
\* day) key, whatever other accumulate operations on the key overlap it: the
\* total after a set of them is the previous total (0 if absent) plus the sum
\* of their deltas, no update is lost.
C11_AccumulateAtomic ==
    [][\A r \in Slots :
        Passes(r, "inc", "save") =>
            myTimeBody(timeRecords', req[r].id, req[r].today)
                = myTimeBody(timeRecords, req[r].id, req[r].today) + req[r].inc]_vars

\* C12: there is at most one TimeRecord per (teacher, calendar day), also when
\* two upserts for a key without a record overlap, and a record is created only
\* by the accumulate step of a call that takes that teacher from available to
\* unavailable on that day.
C12_OneRecordPerKey ==
    /\ [](\A id \in TeacherIds, d \in Days : Cardinality(Matching(timeRecords, id, d)) <= 1)
    /\ [][Len(timeRecords') > Len(timeRecords) =>
            \E r \in Slots :
                /\ Passes(r, "inc", "save")
                /\ req[r].doc.isAvailable /\ ~req[r].desired
                /\ timeRecords' = Append(timeRecords, timeRecords'[Len(timeRecords')])
                /\ timeRecords'[Len(timeRecords')].teacher = req[r].id
                /\ timeRecords'[Len(timeRecords')].date = req[r].today]_vars

\* C13: a status request whose Teacher write was persisted ends by emitting one
\* statusUpdate that reaches every connected socket; a statusUpdate is emitted
\* only by a handler whose write was acknowledged, and the roster it carries was
\* read from the store after that write, so it shows committed statuses only.
C13_BroadcastAfterCommit ==
    [][/\ \A r \in Slots :
            /\ (req[r].pc \in {"find", "emit"} /\ req'[r].pc = "idle") =>
                  /\ req[r].pc = "emit"
                  /\ statusUpdate' = [teachers |-> req[r].roster]
                  /\ \A s \in SocketIds :
                        sockets[s].connected => sockets'[s].statusUpdate = statusUpdate'
            /\ Passes(r, "find", "emit") =>
                  req'[r].roster = [t \in DOMAIN teachers |-> selectNoPassword(teachers[t])]
       /\ statusUpdate' # statusUpdate => \E r \in Slots : Passes(r, "emit", "idle")]_vars

\* C14: when a socket connects, for the first time or again after a disconnect,
\* the server sends it the current roster, without waiting for a status change.
C14_SnapshotOnConnect ==
    [][\A s \in SocketIds :
        (~sockets[s].connected /\ sockets'[s].connected) =>
            sockets'[s].statusUpdate = [teachers |-> findAllTeachers]]_vars

\* C15: statusUpdate emissions follow the order of the commits, also when status
\* requests overlap: once every request was answered, the last emission
\* carries the persisted status of every teacher it lists.
C15_EmissionsInCommitOrder ==
    ((\A r \in Slots : req[r].pc = "idle") /\ statusUpdate # NoEmit) =>
        \A t \in DOMAIN statusUpdate.teachers :
            statusUpdate.teachers[t] = selectNoPassword(teachers[t])

\* the step writes a Teacher document or a TimeRecord of teacher b
Writes(b) ==
    \/ b \in DOMAIN teachers /\ teachers'[b] # teachers[b]
    \/ \E d \in Days : myTimeBody(timeRecords', b, d) # myTimeBody(timeRecords, b, d)
    \/ \E i \in 1..Len(timeRecords') :
          timeRecords'[i].teacher = b /\ (i > Len(timeRecords) \/ timeRecords'[i] # timeRecords[i])

\* C16: a status request whose authenticated id matches no Teacher is answered
\* 404 when findById answers; it creates or changes no Teacher and no
\* TimeRecord and emits no statusUpdate.
C16_UnknownTeacherNotFound ==
    [][\A r \in Slots :
        (req[r].pc = "findById" /\ req'[r].pc # "findById" /\ req[r].id \notin DOMAIN teachers) =>
            /\ res'.status = 404 /\ res'.slot = r /\ res'.caller = req[r].id
            /\ req'[r].pc = "idle"
            /\ teachers' = teachers
            /\ timeRecords' = timeRecords
            /\ statusUpdate' = statusUpdate
            /\ sockets' = sockets]_vars

C16_Witness ==
    /\ res.status = 404
    /\ res.caller \notin DOMAIN teachers
    /\ \E id \in DOMAIN teachers : teachers[id].isAvailable
    /\ statusUpdate # NoEmit

\* C17: a status request without a validly signed token is answered 401 or 400
\* and changes nothing and broadcasts nothing; every handler that runs was
\* authenticated for its teacher id, and only a handler authenticated as teacher
\* b writes b's Teacher document or TimeRecords.
C17_OnlyOwnStatus ==
    [][/\ \A r \in Slots :
            (req[r].pc = "idle" /\ req'[r].pc # "idle") =>
                req'[r].token = SignedToken(req'[r].id)
       /\ res'.status \in {400, 401} =>
            UNCHANGED <<teachers, timeRecords, statusUpdate, sockets, req, calls>>
       /\ \A b \in TeacherIds :
            Writes(b) => \E r \in Slots : req[r].token = SignedToken(b) /\ req[r].id = b]_vars

C17_Witness ==
    /\ res.status \in {400, 401}
    /\ DOMAIN teachers = TeacherIds
    /\ teachers["t1"].isAvailable
    /\ teachers["t2"] = NewTeacher("t2")
    /\ \E i \in 1..Len(timeRecords) : timeRecords[i].teacher = "t1"
    /\ \A i \in 1..Len(timeRecords) : timeRecords[i].teacher = "t1"

RECURSIVE SumDurEndedIn(_, _)
\* the durations of the closed sessions that ended in calendar day d
SumDurEndedIn(closed, d) ==
    IF closed = <<>> THEN 0
    ELSE (IF startOfDay(closed[Len(closed)].end) = d
          THEN closed[Len(closed)].end - closed[Len(closed)].start ELSE 0)
         + SumDurEndedIn(SubSeq(closed, 1, Len(closed) - 1), d)

\* C18: the my-time read changes no Teacher and no TimeRecord; it answers 0 when
\* the caller has no record for the current day, and for a teacher whose calls
\* alternated it answers the sum of the sessions closed today, without the
\* elapsed time of a session that is still open.
C18_MyTimeCommittedOnly ==
    [][\A id \in TeacherIds :
        (res'.slot = 0 /\ res'.status = 200 /\ res'.caller = id) =>
            /\ teachers' = teachers
            /\ timeRecords' = timeRecords
            /\ Matching(timeRecords, id, startOfDay(now)) = {} => res'.totalAvailableTime = 0
            /\ sessions[id].clean =>
                  res'.totalAvailableTime = SumDurEndedIn(sessions[id].closed, startOfDay(now))]_vars

C18_Witness ==
    \E id \in DOMAIN teachers :
        /\ res.slot = 0 /\ res.status = 200 /\ res.caller = id
        /\ sessions[id].clean
        /\ teachers[id].isAvailable
        /\ teachers[id].lastAvailableTimestamp = Date(0)
        /\ now = TickMs
        /\ Len(sessions[id].closed) = 1
        /\ Matching(timeRecords, id, 0) # {}
        /\ res.totalAvailableTime = 0

\* C19: no roster payload holds a password field: not the response of GET
\* /api/teachers, not a statusUpdate emitted or received by a socket.
C19_NoPasswordInRoster ==
    /\ res.teachers # NoDoc => \A t \in DOMAIN res.teachers : "password" \notin DOMAIN res.teachers[t]
    /\ statusUpdate # NoEmit =>
          \A t \in DOMAIN statusUpdate.teachers : "password" \notin DOMAIN statusUpdate.teachers[t]
    /\ \A s \in SocketIds : sockets[s].statusUpdate # NoEmit =>
          \A t \in DOMAIN sockets[s].statusUpdate.teachers :
              "password" \notin DOMAIN sockets[s].statusUpdate.teachers[t]

C19_Witness ==
    /\ res.teachers # NoDoc
    /\ DOMAIN res.teachers = TeacherIds
    /\ \E t \in TeacherIds : res.teachers[t].isAvailable
    /\ statusUpdate # NoEmit
    /\ DOMAIN statusUpdate.teachers = TeacherIds

\* C20: a socket that was sent the newQuery of a query for teacher T is in T's
\* room and belongs to T's own client: no other teacher's socket and no
\* student's socket receives it.
C20_NewQueryOnlyToOwner ==
    \A s \in SocketIds :
        sockets[s].newQuery # NoDoc =>
            /\ sockets[s].newQuery.teacher \in sockets[s].rooms
            /\ Client[s] = sockets[s].newQuery.teacher

\* C21: the totalAvailableTime of every TimeRecord is at least 0 in every state,
\* and no step decreases the totalAvailableTime of a record.
C21_TotalsNonNegativeMonotonic ==
    /\ [](\A i \in 1..Len(timeRecords) : timeRecords[i].totalAvailableTime >= 0)
    /\ [][/\ Len(timeRecords') >= Len(timeRecords)
          /\ \A i \in 1..Len(timeRecords) :
                /\ timeRecords'[i].teacher = timeRecords[i].teacher
                /\ timeRecords'[i].date = timeRecords[i].date
                /\ timeRecords'[i].totalAvailableTime >= timeRecords[i].totalAvailableTime]_vars

\* C22: every amount added to the ledger, and so every stored
\* totalAvailableTime, is a whole number of seconds.
C22_WholeSeconds ==
    /\ \A i \in 1..Len(timeRecords) : timeRecords[i].totalAvailableTime % MsPerSecond = 0
    /\ \A r \in Slots : req[r].pc = "inc" => req[r].inc % MsPerSecond = 0

\* C26: when a status request is answered with an error after it loaded the
\* teacher, the teacher's persisted isAvailable and lastAvailableTimestamp are
\* those the request found, whichever step failed, the roster read after the
\* save included.
C26_ErrorMeansNotPersisted ==
    [][\A r \in Slots :
        (req[r].pc \in {"inc", "save", "find", "emit"} /\ req'[r].pc = "idle"
            /\ res'.slot = r /\ res'.status >= 400) =>
                /\ teachers'[req[r].id].isAvailable = req[r].doc.isAvailable
                /\ SameTimestamp(teachers'[req[r].id].lastAvailableTimestamp,
                                 req[r].doc.lastAvailableTimestamp)]_vars

\* C30: the body of a 200 response to a status request has no password field: it
\* is the credential-free view of the teacher that the roster gives.
C30_NoPasswordInStatusResponse ==
    (res.status = 200 /\ res.teacher # NoDoc) => "password" \notin DOMAIN res.teacher

\* C24: a query moves only along pending -> ended -> resolved: its resolution is
\* set only while its status is 'ended' and only once, and an ended query
\* never becomes pending again.
C24_QueryLifecycle ==
    [][\A i \in 1..Len(queries) :
        /\ queries'[i].resolution # queries[i].resolution =>
              /\ queries[i].status = "ended"
              /\ queries[i].resolution = "null"
        /\ queries[i].status = "ended" => queries'[i].status = "ended"]_vars

\* C23: a query is saved only for a teacher who exists and whose persisted
\* isAvailable is true at that moment, also when the student picked the teacher
\* from a list that has become stale.
C23_QueryOnlyForAvailableTeacher ==
    [][Len(queries') > Len(queries) =>
          LET t == queries'[Len(queries')].teacher
          IN  t \in DOMAIN teachers /\ teachers[t].isAvailable]_vars

\* C25: a teacher's document and TimeRecords change only in the accumulate and
\* save steps of a status request of that teacher; every other step (requests of
\* other teachers, query routes, reads, socket events) leaves them as they
\* were, and no step removes a Teacher.
C25_OnlyOwnStatusRequestsWrite ==
    [][/\ DOMAIN teachers \subseteq DOMAIN teachers'
       /\ \A b \in TeacherIds :
             Writes(b) => \E r \in Slots :
                 /\ req[r].id = b
                 /\ req[r].pc \in {"inc", "save"}
                 /\ req'[r].pc # req[r].pc
       /\ (qreq' # qreq \/ sockets' # sockets \/ req' = req) =>
             (\A b \in DOMAIN teachers : teachers'[b] = teachers[b]) /\ timeRecords' = timeRecords]_vars

C25_Witness ==
    /\ DOMAIN teachers = TeacherIds
    /\ teachers["t1"].isAvailable
    /\ teachers["t2"] = NewTeacher("t2")
    /\ \E i \in 1..Len(queries) :
          queries[i].teacher = "t1" /\ queries[i].status = "ended" /\ queries[i].resolution # "null"
    /\ sockets[DashSocket].queryUpdated # NoDoc
    /\ DashTeacher \in sockets[DashSocket].rooms

\* C27: when the student app is mounted, its roster request is answered and
\* delivered and no status request is being handled, the app's teacher list is
\* the persisted roster; a snapshot that arrives late does not replace the
\* list of a newer statusUpdate.
C27_StudentViewConverges ==
    (/\ clients.student.mounted
     /\ clients.student.get = "none"
     /\ \A r \in Slots : req[r].pc = "idle") =>
        clients.student.teachers = findAllTeachers

\* C28: while the dashboard is open and loaded and no request of its teacher is
\* under way, the displayed total availableTime + sessionDuration is, to within
\* the second the timer counts in, the committed total of today plus
\* now - lastAvailableTimestamp if the teacher is available, and the committed
\* total alone otherwise; also for a dashboard opened while the teacher is
\* available.
C28_DisplayedTotalIsLive ==
    (/\ clients.dash.mounted
     /\ clients.dash.fetch = "none"
     /\ ~InFlight(DashTeacher)) =>
        LET displayed == clients.dash.availableTime + clients.dash.sessionDuration
            live == myTimeBodyWithOpenSession(timeRecords, DashTeacher, startOfDay(now))
        IN  displayed - live < MsPerSecond /\ live - displayed < MsPerSecond

\* C29: the socket of a mounted dashboard, which emitted joinRoom for its
\* teacher, receives newQuery for every query of that teacher that is notified
\* while the socket is connected, also after a disconnect and reconnect.
C29_DashboardReceivesNewQuery ==
    [][(/\ qreq.pc = "saved" /\ qreq'.pc = "idle"
        /\ qreq.query.teacher = DashTeacher
        /\ clients.dash.mounted
        /\ sockets[DashSocket].connected) =>
            sockets'[DashSocket].newQuery = qreq.query]_vars
====
